---- MODULE Spec2Model ----
(***************************************************************************)
(* Model of gsmfunc.cc: FuncDescObj (the description of a native function: *)
(* entry point, parameter count, per-parameter name/type/default) and      *)
(* CallFunctionObject (one pending call: an argument slot per parameter,   *)
(* seeded with copies of the defaults, and a cursor).                      *)
(*                                                                         *)
(* Portion instances live in `heap`; a Portion* is an index into it and 0  *)
(* is the null pointer.  `ndebug` is the build: with NDEBUG defined the    *)
(* assert()s and the #ifndef NDEBUG block of SetParamInfo are compiled     *)
(* out.  `halted` is set when an assert aborts the process or when         *)
(* undefined behaviour crashes it.                                         *)
(*                                                                         *)
(* SpecSig is the module-initialisation phase (SetParamInfo on a fresh     *)
(* FuncDescObj); Spec is the call phase on a fully declared FuncDescObj.   *)
(***************************************************************************)
EXTENDS Integers, Sequences, FiniteSets, TLC

VARIABLES ndebug, halted, num_of_params, ParamInfo, declared, heap,
          calls, invoked, oob, last, trace, gerr

vars == <<ndebug, halted, num_of_params, ParamInfo, declared, heap,
          calls, invoked, oob, last, trace, gerr>>

----------------------------------------------------------------------------
(* Bounds *)

MaxParams == 2
MaxVal == 2
MaxCalls == 2
MaxDecl == 2
MaxOps == 3
MaxExec == 2

(* Program constants *)

NO_DEFAULT_VALUE == 0
NotFound == 0 - 1

NamePool == <<"x", "y", "z", "w", "v", "u">>
Names == {NamePool[i] : i \in 1..MaxParams}
EmptyName == ""
UnknownName == "q"
PortionTypes == {"porINTEGER", "porNUMERICAL"}
porERROR == "porERROR"
Uninit == "uninit"
DefVals == 1..MaxVal
ArgVals == {MaxVal + 1}
Calls == 1..MaxCalls
FuncNames == {"Sqr"}

Indices == 0..(num_of_params - 1)
InRange(index) == index >= 0 /\ index < num_of_params

----------------------------------------------------------------------------
(* The Portion heap *)

New(h, v) == Append(h, [val |-> v, live |-> TRUE])

Delete(h, p) == IF p \in 1..Len(h) THEN [h EXCEPT ![p].live = FALSE] ELSE h

Live(h, p) == p \in 1..Len(h) /\ h[p].live

(* Portion::Copy(): a new instance with the same content *)
Copy(h, p) == [heap |-> New(h, h[p].val), ptr |-> Len(h) + 1]

----------------------------------------------------------------------------
(* FuncDescObj *)

NumParams == num_of_params

ParamName(index) == ParamInfo[index].Name

ParamType(index) == ParamInfo[index].Type

ParamDefaultValue_NoCopy(h, index) ==
  [heap |-> h, ptr |-> ParamInfo[index].DefaultValue]

(* Returns the pointer handed back and the heap after the call *)
ParamDefaultValue(h, index) ==
  IF ParamInfo[index].DefaultValue = NO_DEFAULT_VALUE
  THEN [heap |-> h, ptr |-> 0]
  ELSE Copy(h, ParamInfo[index].DefaultValue)

RECURSIVE FindFrom(_, _)
FindFrom(i, name) ==
  IF i >= num_of_params THEN NotFound
  ELSE IF ParamInfo[i].Name = name THEN i
  ELSE FindFrom(i + 1, name)

FindParamName_FromOne(name) == FindFrom(1, name)

FindParamName(name) == FindFrom(0, name)

(* The scan at the head of SetParamInfo *)
RECURSIVE RepeatedFrom(_, _)
RepeatedFrom(i, name) ==
  IF i >= num_of_params THEN FALSE
  ELSE IF ParamInfo[i].Name = name THEN TRUE
  ELSE RepeatedFrom(i + 1, name)

repeated_variable_declaration(name) == RepeatedFrom(0, name)

(* The outcome of the last operation: what was called, with which        *)
(* arguments, what it wrote to gerr and what it returned.                *)
NoReport == "none"
NoStr == "-"
NoInt == 0 - 9

Report(op, c, index, name, type, val, err, ret, rstr) ==
  [op |-> op, c |-> c, index |-> index, name |-> name, type |-> type,
   val |-> val, err |-> err, ret |-> ret, rstr |-> rstr]

(* The calls made so far that may change state, in order *)
Op(op, c, arg) == [op |-> op, c |-> c, arg |-> arg]

(* A message written to gerr by pending call c (0: by the FuncDescObj) *)
Message(c, err) == [c |-> c, err |-> err]

Stray(arr, c, index) == [arr |-> arr, c |-> c, index |-> index]

StoreParamInfo_DropsType(index, name, type, default_value) ==
  [ParamInfo EXCEPT ![index] =
     [Name |-> name, Type |-> ParamInfo[index].Type,
      DefaultValue |-> default_value]]

(* The three stores at the end of SetParamInfo *)
StoreParamInfo(index, name, type, default_value) ==
  [ParamInfo EXCEPT ![index] =
     [Name |-> name, Type |-> type, DefaultValue |-> default_value]]

(* SetParamInfo( index, name, type, default_value ); the caller passes    *)
(* either NO_DEFAULT_VALUE (v = 0) or a freshly allocated Portion of       *)
(* content v.                                                              *)
SetParamInfo(index, name, type, v) ==
  LET h1 == IF v = 0 THEN heap ELSE New(heap, v)
      default_value == IF v = 0 THEN NO_DEFAULT_VALUE ELSE Len(heap) + 1
      rep == repeated_variable_declaration(name)
      rp(err) == Report("SetParamInfo", 0, index, name, type, v, err, NoInt, NoStr)
  IN
  /\ ~halted
  /\ Len(trace) < MaxDecl
  /\ trace' = Append(trace, Op("SetParamInfo", 0, index))
  /\ heap' = h1
  /\ UNCHANGED <<ndebug, num_of_params, calls, invoked>>
  /\ \/ (* assert( index >= 0 && index < num_of_params ) fails *)
        /\ ~ndebug /\ ~InRange(index)
        /\ halted' = TRUE
        /\ last' = rp("assert")
        /\ UNCHANGED <<ParamInfo, declared, oob, gerr>>
     \/ (* the #ifndef NDEBUG block: message on gerr, then assert aborts *)
        /\ ~ndebug /\ InRange(index) /\ rep
        /\ halted' = TRUE
        /\ last' = rp("DuplicateParameterName")
        /\ gerr' = gerr \cup {Message(0, "DuplicateParameterName")}
        /\ UNCHANGED <<ParamInfo, declared, oob>>
     \/ (* NDEBUG build, index outside the array: the three stores are   *)
        (* undefined behaviour; the process crashes or memory outside    *)
        (* ParamInfo is overwritten                                      *)
        /\ ndebug /\ ~InRange(index)
        /\ halted' \in BOOLEAN
        /\ oob' = oob \cup {Stray("ParamInfo", 0, index)}
        /\ last' = rp(NoReport)
        /\ UNCHANGED <<ParamInfo, declared, gerr>>
     \/ /\ InRange(index)
        /\ ndebug \/ ~rep
        /\ ParamInfo' = StoreParamInfo(index, name, type, default_value)
        /\ declared' = [declared EXCEPT ![index] = TRUE]
        /\ last' = rp(NoReport)
        /\ UNCHANGED <<halted, oob, gerr>>

(* An accessor called with an index: assert in the debug build, an       *)
(* out-of-bounds read (crash or garbage) in the NDEBUG build.            *)
Accessor(op, index, garbageStr, goodStr) ==
  /\ ~halted
  /\ UNCHANGED <<ndebug, num_of_params, ParamInfo, declared, heap, calls,
                 invoked, oob, trace, gerr>>
  /\ \/ /\ InRange(index)
        /\ halted' = FALSE
        /\ \E r \in goodStr :
             last' = Report(op, 0, index, NoStr, NoStr, NoInt, NoReport, NoInt, r)
     \/ /\ ~InRange(index) /\ ~ndebug
        /\ halted' = TRUE
        /\ last' = Report(op, 0, index, NoStr, NoStr, NoInt, "assert", NoInt, NoStr)
     \/ /\ ~InRange(index) /\ ndebug
        /\ halted' \in BOOLEAN
        /\ \E r \in garbageStr :
             last' = Report(op, 0, index, NoStr, NoStr, NoInt, NoReport, NoInt, r)

AnyName == Names \cup {EmptyName, UnknownName}
AnyType == PortionTypes \cup {porERROR}

(* gString FuncDescObj::ParamName( index ) *)
DoParamName(index) ==
  Accessor("ParamName", index, AnyName,
           IF InRange(index) THEN {ParamName(index)} ELSE {})

(* PortionType FuncDescObj::ParamType( index ); the Type of a slot that  *)
(* was never declared is an uninitialised enum                           *)
DoParamType(index) ==
  Accessor("ParamType", index, AnyType,
           IF ~InRange(index) THEN {}
           ELSE IF ParamType(index) = Uninit THEN AnyType
           ELSE {ParamType(index)})

(* int FuncDescObj::FindParamName( name ) *)
DoFindParamName(name) ==
  /\ ~halted
  /\ last' = Report("FindParamName", 0, NoInt, name, NoStr, NoInt, NoReport,
                    FindParamName(name), NoStr)
  /\ UNCHANGED <<ndebug, halted, num_of_params, ParamInfo, declared, heap,
                 calls, invoked, oob, trace, gerr>>

(* int FuncDescObj::NumParams() *)
DoNumParams ==
  /\ ~halted
  /\ last' = Report("NumParams", 0, NoInt, NoStr, NoStr, NoInt, NoReport,
                    NumParams, NoStr)
  /\ UNCHANGED <<ndebug, halted, num_of_params, ParamInfo, declared, heap,
                 calls, invoked, oob, trace, gerr>>

NoCall == [created |-> FALSE, func_name |-> NoStr, param |-> <<>>,
           current_param_index |-> 0]

(* FuncDescObj::FuncDescObj( funcname, size ): assert( size >= 0 ), then *)
(* an array of size default-constructed ParamInfoType                    *)
InitSig ==
  /\ ndebug \in BOOLEAN
  /\ halted = FALSE
  /\ num_of_params \in 0..MaxParams
  /\ ParamInfo = [i \in 0..(num_of_params - 1) |->
                   [Name |-> EmptyName, Type |-> Uninit,
                    DefaultValue |-> NO_DEFAULT_VALUE]]
  /\ declared = [i \in 0..(num_of_params - 1) |-> FALSE]
  /\ heap = <<>>
  /\ calls = [c \in Calls |-> NoCall]
  /\ invoked = [c \in Calls |-> <<>>]
  /\ oob = {}
  /\ last = Report("FuncDescObj", 0, NoInt, NoStr, NoStr, NoInt, NoReport,
                   NoInt, NoStr)
  /\ trace = <<>>
  /\ gerr = {}

IndexArgs == (0 - 1)..num_of_params

NextSig ==
  \/ \E index \in IndexArgs, name \in Names \cup {EmptyName},
        type \in PortionTypes, v \in {0} \cup DefVals :
       SetParamInfo(index, name, type, v)
  \/ \E index \in IndexArgs : DoParamName(index)
  \/ \E index \in IndexArgs : DoParamType(index)
  \/ \E name \in AnyName : DoFindParamName(name)
  \/ DoNumParams

SpecSig == InitSig /\ [][NextSig]_vars

----------------------------------------------------------------------------
(* CallFunctionObject *)

Cursor(c) == calls[c].current_param_index

Slots(c) == calls[c].param

RECURSIVE SeedParams_WrongIndex(_, _, _)
SeedParams_WrongIndex(i, h, p) ==
  IF i >= NumParams THEN [heap |-> h, param |-> p]
  ELSE LET d == ParamDefaultValue(h, 0)
       IN SeedParams_WrongIndex(i + 1, d.heap, [p EXCEPT ![i] = d.ptr])

(* The constructor's loop: param[ i ] = func_desc_obj->ParamDefaultValue( i ) *)
RECURSIVE SeedParams(_, _, _)
SeedParams(i, h, p) ==
  IF i >= NumParams THEN [heap |-> h, param |-> p]
  ELSE LET d == ParamDefaultValue(h, i)
       IN SeedParams(i + 1, d.heap, [p EXCEPT ![i] = d.ptr])

(* CallFunctionObject::CallFunctionObject( name, func ) *)
Create(c, name) ==
  LET s == SeedParams(0, heap, [i \in Indices |-> 0])
  IN
  /\ ~halted
  /\ ~calls[c].created
  /\ calls' = [calls EXCEPT ![c] =
                 [created |-> TRUE, func_name |-> name, param |-> s.param,
                  current_param_index |-> 0]]
  /\ heap' = s.heap
  /\ last' = Report("CallFunctionObject", c, NoInt, name, NoStr, NoInt,
                    NoReport, NoInt, NoStr)
  /\ UNCHANGED <<ndebug, halted, num_of_params, ParamInfo, declared,
                 invoked, oob, trace, gerr>>

WithinParams_OffByOne(k) == k <= NumParams

WithinParams_Latched(k) ==
  /\ k < NumParams
  /\ \A e \in gerr : e.err # "TooManyParameters"

(* The test current_param_index < func_desc_obj->NumParams() *)
WithinParams(k) == k < NumParams

(* PortionType CallFunctionObject::GetCurrParamType() *)
GetCurrParamType(c) ==
  LET k == Cursor(c)
      rp(err, r) == Report("GetCurrParamType", c, k, NoStr, NoStr, NoInt,
                           err, NoInt, r)
  IN
  /\ ~halted
  /\ calls[c].created
  /\ UNCHANGED <<ndebug, num_of_params, ParamInfo, declared, heap, calls,
                 invoked, oob, trace>>
  /\ IF WithinParams(k)
     THEN /\ UNCHANGED gerr
          /\ \/ /\ InRange(k)
                /\ last' = rp(NoReport, ParamType(k))
                /\ halted' = FALSE
             \/ (* ParamType( k ) with k < 0: its assert aborts *)
                /\ ~InRange(k) /\ ~ndebug
                /\ last' = rp("assert", NoStr)
                /\ halted' = TRUE
             \/ (* NDEBUG build: ParamInfo[ k ] is read outside the array *)
                /\ ~InRange(k) /\ ndebug
                /\ \E r \in AnyType : last' = rp(NoReport, r)
                /\ halted' \in BOOLEAN
     ELSE /\ last' = rp("TooManyParameters", porERROR)
          /\ gerr' = gerr \cup {Message(c, "TooManyParameters")}
          /\ halted' = FALSE

NextIndex_Stuck(k) == k

(* current_param_index++ *)
NextIndex(k) == k + 1

(* void CallFunctionObject::SetCurrParam( new_param ); the caller passes  *)
(* a freshly allocated Portion of content v                               *)
SetCurrParam(c, v) ==
  LET k == Cursor(c)
      h1 == New(heap, v)
      new_param == Len(heap) + 1
      rp(err) == Report("SetCurrParam", c, k, NoStr, NoStr, v, err,
                        new_param, NoStr)
  IN
  /\ ~halted
  /\ calls[c].created
  /\ Len(trace) < MaxOps
  /\ trace' = Append(trace, Op("SetCurrParam", c, v))
  /\ UNCHANGED <<ndebug, num_of_params, ParamInfo, declared, invoked>>
  /\ IF WithinParams(k)
     THEN \/ /\ InRange(k)
             /\ heap' = Delete(h1, Slots(c)[k])
             /\ calls' = [calls EXCEPT ![c].param[k] = new_param,
                                       ![c].current_param_index = NextIndex(k)]
             /\ last' = rp(NoReport)
             /\ \/ halted' = FALSE
                \/ (* the slot held a pointer already deleted by the     *)
                   (* callee: deleting it again may crash                *)
                   /\ Slots(c)[k] # 0 /\ ~Live(heap, Slots(c)[k])
                   /\ halted' = TRUE
             /\ UNCHANGED <<oob, gerr>>
          \/ (* param[ k ] is read, deleted and written outside the      *)
             (* array                                                    *)
             /\ ~InRange(k)
             /\ heap' = h1
             /\ calls' = [calls EXCEPT ![c].current_param_index = NextIndex(k)]
             /\ oob' = oob \cup {Stray("param", c, k)}
             /\ last' = rp(NoReport)
             /\ halted' \in BOOLEAN
             /\ UNCHANGED gerr
     ELSE /\ heap' = h1
          /\ last' = rp("TooManyParameters")
          /\ gerr' = gerr \cup {Message(c, "TooManyParameters")}
          /\ UNCHANGED <<halted, calls, oob>>

SetCurrParamIndex_Ignored(c, index) ==
  /\ ~halted
  /\ calls[c].created
  /\ Len(trace) < MaxOps
  /\ trace' = Append(trace, Op("SetCurrParamIndex", c, index))
  /\ last' = Report("SetCurrParamIndex", c, index, NoStr, NoStr, NoInt,
                    NoReport, NoInt, NoStr)
  /\ UNCHANGED <<ndebug, halted, num_of_params, ParamInfo, declared, heap,
                 calls, invoked, oob, gerr>>

(* void CallFunctionObject::SetCurrParamIndex( index ) *)
SetCurrParamIndex(c, index) ==
  /\ ~halted
  /\ calls[c].created
  /\ Len(trace) < MaxOps
  /\ trace' = Append(trace, Op("SetCurrParamIndex", c, index))
  /\ calls' = [calls EXCEPT ![c].current_param_index = index]
  /\ last' = Report("SetCurrParamIndex", c, index, NoStr, NoStr, NoInt,
                    NoReport, NoInt, NoStr)
  /\ UNCHANGED <<ndebug, halted, num_of_params, ParamInfo, declared, heap,
                 invoked, oob, gerr>>

(* int CallFunctionObject::GetCurrParamIndex() *)
GetCurrParamIndex(c) ==
  /\ ~halted
  /\ calls[c].created
  /\ last' = Report("GetCurrParamIndex", c, NoInt, NoStr, NoStr, NoInt,
                    NoReport, Cursor(c), NoStr)
  /\ UNCHANGED <<ndebug, halted, num_of_params, ParamInfo, declared, heap,
                 calls, invoked, oob, trace, gerr>>

(* int CallFunctionObject::FindParamName( name ) *)
CallFindParamName(c, name) ==
  /\ ~halted
  /\ calls[c].created
  /\ last' = Report("CallFunctionObject::FindParamName", c, NoInt, name,
                    NoStr, NoInt, NoReport, FindParamName(name), NoStr)
  /\ UNCHANGED <<ndebug, halted, num_of_params, ParamInfo, declared, heap,
                 calls, invoked, oob, trace, gerr>>

(* gString CallFunctionObject::FuncName() *)
FuncName(c) ==
  /\ ~halted
  /\ calls[c].created
  /\ last' = Report("FuncName", c, NoInt, NoStr, NoStr, NoInt, NoReport,
                    NoInt, calls[c].func_name)
  /\ UNCHANGED <<ndebug, halted, num_of_params, ParamInfo, declared, heap,
                 calls, invoked, oob, trace, gerr>>

FirstEmpty_OnlyHead(p, i) ==
  IF i < NumParams /\ p[i] = 0 THEN i ELSE NumParams

FirstEmpty_Latched(p, i) ==
  IF \E e \in gerr : e.err = "MissingRequiredParameter" THEN 0
  ELSE IF \E j \in i..(NumParams - 1) : p[j] = 0
       THEN CHOOSE j \in i..(NumParams - 1) :
              p[j] = 0 /\ \A l \in i..(j - 1) : p[l] # 0
       ELSE NumParams

(* The loop at the head of CallFunction: the first i with param[ i ] == 0, *)
(* or NumParams when there is none                                         *)
RECURSIVE FirstEmpty(_, _)
FirstEmpty(p, i) ==
  IF i >= NumParams THEN NumParams
  ELSE IF p[i] = 0 THEN i
  ELSE FirstEmpty(p, i + 1)

Dangling == 0 - 1

(* What the entry point sees in each argument: the content of a live      *)
(* Portion, or a dangling pointer                                         *)
ArgContents(h, p) == [i \in DOMAIN p |-> IF Live(h, p[i]) THEN h[p[i]].val ELSE Dangling]

(* The entry point deletes all of its pointer parameters *)
RECURSIVE DeleteAll(_, _, _)
DeleteAll(h, p, i) ==
  IF i >= NumParams THEN h ELSE DeleteAll(Delete(h, p[i]), p, i + 1)

(* Portion* FuncDescObj::CallFunction( param ): return function( param ) *)
FuncDescObj_CallFunction(c, param, r) ==
  /\ invoked' = [invoked EXCEPT ![c] =
                   Append(@, [args |-> param, vals |-> ArgContents(heap, param)])]
  /\ heap' = DeleteAll(heap, param, 0)
  /\ last' = Report("CallFunction", c, NoInt, NoStr, NoStr, NoInt, NoReport,
                    r, NoStr)
  /\ UNCHANGED gerr
  /\ \/ halted' = FALSE
     \/ (* the callee reads and deletes an already deleted Portion *)
        /\ \E i \in DOMAIN param : ~Live(heap, param[i])
        /\ halted' = TRUE

(* Portion* CallFunctionObject::CallFunction(); r is what the entry point *)
(* returns: 0 or a Portion                                                *)
CallFunction(c, r) ==
  LET i == FirstEmpty(Slots(c), 0)
  IN
  /\ ~halted
  /\ calls[c].created
  /\ Len(trace) < MaxOps
  /\ Len(invoked[c]) < MaxExec
  /\ trace' = Append(trace, Op("CallFunction", c, 0))
  /\ UNCHANGED <<ndebug, num_of_params, ParamInfo, declared, calls, oob>>
  /\ IF i < NumParams
     THEN /\ last' = Report("CallFunction", c, i, ParamName(i),
                            NoStr, NoInt, "MissingRequiredParameter", 0,
                            calls[c].func_name)
          /\ gerr' = gerr \cup {Message(c, "MissingRequiredParameter")}
          /\ UNCHANGED <<halted, heap, invoked>>
     ELSE FuncDescObj_CallFunction(c, Slots(c), r)

----------------------------------------------------------------------------
(* The call phase: a FuncDescObj whose parameters have all been declared  *)
(* by SetParamInfo( 0 ), SetParamInfo( 1 ), ... in this order             *)

RECURSIVE DefaultHeap(_, _, _)
DefaultHeap(defs, i, h) ==
  IF i >= Len(defs) THEN h
  ELSE DefaultHeap(defs, i + 1, IF defs[i + 1] = 0 THEN h ELSE New(h, defs[i + 1]))

DefaultPtr(defs, i) ==
  IF defs[i + 1] = 0 THEN NO_DEFAULT_VALUE
  ELSE Cardinality({j \in 0..i : defs[j + 1] # 0})

Injective(f) == \A i, j \in DOMAIN f : i # j => f[i] # f[j]

Init ==
  /\ ndebug \in BOOLEAN
  /\ halted = FALSE
  /\ num_of_params \in 0..MaxParams
  /\ \E names \in {f \in [1..num_of_params -> Names] :
                        \A i \in DOMAIN f : \E j \in 1..i : f[i] = NamePool[j]},
        types \in [1..num_of_params -> PortionTypes],
        defs \in [1..num_of_params -> {0} \cup DefVals] :
       /\ ndebug \/ Injective(names)
       /\ ParamInfo = [i \in 0..(num_of_params - 1) |->
                        [Name |-> names[i + 1], Type |-> types[i + 1],
                         DefaultValue |-> DefaultPtr(defs, i)]]
       /\ heap = DefaultHeap(defs, 0, <<>>)
  /\ declared = [i \in 0..(num_of_params - 1) |-> TRUE]
  /\ calls = [c \in Calls |-> NoCall]
  /\ invoked = [c \in Calls |-> <<>>]
  /\ oob = {}
  /\ last = Report("FuncDescObj", 0, NoInt, NoStr, NoStr, NoInt, NoReport,
                   NoInt, NoStr)
  /\ trace = <<>>
  /\ gerr = {}

JumpArgs == (0 - 1)..(num_of_params + 1)

(* One pending call *)
Next ==
  \/ \E name \in FuncNames : Create(1, name)
  \/ GetCurrParamType(1)
  \/ \E v \in ArgVals : SetCurrParam(1, v)
  \/ \E index \in JumpArgs : SetCurrParamIndex(1, index)
  \/ GetCurrParamIndex(1)
  \/ \E name \in Names \cup {UnknownName} : CallFindParamName(1, name)
  \/ FuncName(1)
  \/ \E r \in {0, 1} : CallFunction(1, r)

Spec == Init /\ [][Next]_vars

(* Several pending calls on the same FuncDescObj (a nested call) *)
NextNested ==
  \/ \E c \in Calls, name \in FuncNames : Create(c, name)
  \/ \E c \in Calls, v \in ArgVals : SetCurrParam(c, v)
  \/ \E c \in Calls, index \in JumpArgs : SetCurrParamIndex(c, index)
  \/ \E c \in Calls, r \in {0, 1} : CallFunction(c, r)

SpecNested == Init /\ [][NextNested]_vars

----------------------------------------------------------------------------
(* Properties *)

(* The step just taken is a call of op on pending call c *)
Called(op, c) ==
  /\ Len(trace') = Len(trace) + 1
  /\ trace'[Len(trace')].op = op
  /\ trace'[Len(trace')].c = c

HasDefault(i) == ParamInfo[i].DefaultValue # NO_DEFAULT_VALUE

DefaultContent(i) == heap[ParamInfo[i].DefaultValue].val

EmptySlots(c) == {i \in Indices : Slots(c)[i] = 0}

(* C1: CallFunction() invokes the entry point if and only if every slot *)
(* is non-empty; with an empty slot it reports the missing parameter of  *)
(* the lowest empty index, returns 0 and leaves the entry point          *)
(* uncalled.                                                             *)
C1_ExecuteIffAllSlotsFilled ==
  [][\A c \in Calls :
       Called("CallFunction", c) =>
         IF EmptySlots(c) = {}
         THEN /\ Len(invoked'[c]) = Len(invoked[c]) + 1
              /\ invoked'[c][Len(invoked'[c])].args = Slots(c)
              /\ last'.err = NoReport
         ELSE /\ invoked' = invoked
              /\ heap' = heap
              /\ last'.err = "MissingRequiredParameter"
              /\ last'.index \in EmptySlots(c)
              /\ \A i \in EmptySlots(c) : last'.index <= i
              /\ last'.name = ParamInfo[last'.index].Name
              /\ last'.rstr = calls[c].func_name
              /\ last'.ret = 0]_vars

C1_Witness ==
  /\ last.op = "CallFunction"
  /\ last.err = "MissingRequiredParameter"
  /\ last.index = 1
  /\ calls[1].param[0] # 0
  /\ invoked[1] = <<>>

(* C2: when every parameter has a default, a call that is created and   *)
(* executed at once invokes the entry point exactly once, argument i     *)
(* being a copy of default i.                                            *)
C2_DefaultsOnlyCall ==
  (/\ trace = <<Op("CallFunction", 1, 0)>>
   /\ \A i \in Indices : HasDefault(i))
  => /\ Len(invoked[1]) = 1
     /\ \A i \in Indices :
          /\ invoked[1][1].vals[i] = DefaultContent(i)
          /\ invoked[1][1].args[i] # ParamInfo[i].DefaultValue

C2_Witness ==
  /\ trace = <<Op("CallFunction", 1, 0)>>
  /\ num_of_params = 2
  /\ Len(invoked[1]) = 1
  /\ invoked[1][1].vals[0] = 1
  /\ invoked[1][1].vals[1] = 2

(* The calls made on pending call 1 are exactly SetCurrParamIndex( k ),  *)
(* SetCurrParam( v ), CallFunction(), k being what FindParamName gives   *)
(* for the name declared at k                                            *)
NamedBinding(k) ==
  /\ Len(trace) = 3
  /\ trace[1] = Op("SetCurrParamIndex", 1, k)
  /\ trace[2].op = "SetCurrParam"
  /\ trace[3].op = "CallFunction"
  /\ FindParamName(ParamInfo[k].Name) = k

C4_TooManyLeavesCallUnchanged ==
  [][\A c \in Calls :
       (Called("SetCurrParam", c) /\ Cursor(c) >= NumParams) =>
         /\ last'.err = "TooManyParameters"
         /\ calls' = calls]_vars

C4_Witness ==
  /\ num_of_params = 2
  /\ Len(trace) = 3
  /\ \A n \in 1..3 : trace[n].op = "SetCurrParam"
  /\ last.op = "SetCurrParam"
  /\ last.err = "TooManyParameters"
  /\ Cursor(1) = 2
  /\ \A i \in Indices : Live(heap, Slots(1)[i]) /\ heap[Slots(1)[i]].val = MaxVal + 1

(* C5: SetParamInfo with the name of another declared parameter reports *)
(* the duplicate name and overwrites nothing.                            *)
C5_DuplicateNameRejected ==
  [][\A index \in Indices :
       (/\ Called("SetParamInfo", 0)
        /\ last'.index = index
        /\ \E j \in Indices \ {index} :
             declared[j] /\ ParamInfo[j].Name = last'.name) =>
         /\ last'.err = "DuplicateParameterName"
         /\ ParamInfo' = ParamInfo]_vars

StoredDefaults == {ParamInfo[i].DefaultValue : i \in Indices} \ {NO_DEFAULT_VALUE}

(* C6: a slot of a pending call never holds the instance stored in the  *)
(* FuncDescObj nor an instance held by another slot or another pending   *)
(* call; the stored defaults stay alive with their content whatever the  *)
(* calls release, and a call's slots stay alive until that call is       *)
(* handed to the entry point.                                            *)
C6_DefaultCopiesIndependent ==
  /\ \A i \in Indices :
       HasDefault(i) => Live(heap, ParamInfo[i].DefaultValue)
  /\ \A c \in Calls :
       calls[c].created =>
         /\ \A i \in Indices :
              Slots(c)[i] # 0 =>
                /\ Slots(c)[i] \notin StoredDefaults
                /\ \A j \in Indices \ {i} : Slots(c)[j] # Slots(c)[i]
                /\ \A d \in Calls \ {c} :
                     calls[d].created =>
                       \A j \in Indices : Slots(d)[j] # Slots(c)[i]
                /\ invoked[c] = <<>> => Live(heap, Slots(c)[i])
         /\ \A i \in Indices :
              (HasDefault(i) /\ ~\E n \in 1..Len(trace) :
                                  trace[n].op = "SetCurrParam" /\ trace[n].c = c) =>
                /\ Slots(c)[i] # 0
                /\ heap[Slots(c)[i]].val = DefaultContent(i)

C6_Witness ==
  /\ num_of_params = 2
  /\ HasDefault(0) /\ HasDefault(1)
  /\ calls[1].created /\ calls[2].created
  /\ Len(invoked[2]) = 1
  /\ invoked[1] = <<>>
  /\ last.op = "SetCurrParam" /\ last.c = 1 /\ last.index = 0
  /\ Live(heap, Slots(1)[1])
  /\ heap[Slots(1)[1]].val = DefaultContent(1)

NameHits(name) == {i \in Indices : declared[i] /\ ParamInfo[i].Name = name}

C8_DeclareRoundTrip ==
  [][\A index \in Indices :
       (/\ Called("SetParamInfo", 0)
        /\ last'.index = index
        /\ last'.err = NoReport) =>
         /\ ParamInfo'[index].Name = last'.name
         /\ ParamInfo'[index].Type = last'.type
         /\ declared'[index]
         /\ \A j \in Indices \ {index} : ParamInfo'[j] = ParamInfo[j]]_vars

C8_Witness ==
  /\ num_of_params = 2
  /\ Len(trace) = 2
  /\ trace[1].arg = 0 /\ trace[2].arg = 1
  /\ ~halted
  /\ last.op = "SetParamInfo" /\ last.err = NoReport
  /\ ParamInfo[0].Name = "x" /\ ParamInfo[0].Type = "porNUMERICAL"
  /\ ParamInfo[1].Name = "y" /\ ParamInfo[1].Type = "porINTEGER"

(* C9: the entry point is invoked at most once per pending call. *)
C9_InvokedAtMostOnce ==
  \A c \in Calls : Len(invoked[c]) <= 1

(* C10: the cursor of a pending call stays within [0, NumParams]. *)
C10_CursorInRange ==
  \A c \in Calls :
    calls[c].created => Cursor(c) >= 0 /\ Cursor(c) <= NumParams

(* C11: SetCurrParam never reads, releases or writes param[] outside   *)
(* [0, NumParams).                                                       *)
C11_NoSlotAccessOutsideArray ==
  \A a \in oob : a.arr # "param"

(* A step of GetCurrParamType on pending call c *)
AskedType(c) ==
  /\ last'.op = "GetCurrParamType"
  /\ last'.c = c
  /\ trace' = trace
  /\ last' # last \/ halted' # halted

(* C12: GetCurrParamType returns the declared type of the parameter at  *)
(* the cursor when the cursor is in [0, NumParams), reports too many     *)
(* parameters and returns porERROR when it is at or past NumParams,      *)
(* changes no slot and no cursor, and never aborts.                      *)
C12_CurrParamType ==
  [][\A c \in Calls :
       AskedType(c) =>
         /\ calls' = calls
         /\ heap' = heap
         /\ ~halted'
         /\ InRange(Cursor(c)) =>
              /\ last'.rstr = ParamInfo[Cursor(c)].Type
              /\ last'.err = NoReport
         /\ Cursor(c) >= NumParams =>
              /\ last'.rstr = porERROR
              /\ last'.err = "TooManyParameters"]_vars

(* C13: no parameter declared porNUMERICAL carries a default value. *)
C13_NumericalHasNoDefault ==
  \A i \in Indices :
    (declared[i] /\ ParamInfo[i].Type = "porNUMERICAL") => ~HasDefault(i)

(* C14: once SetParamInfo has set index i, nothing changes the name,    *)
(* type or default stored at i.                                          *)
C14_DeclaredParamImmutable ==
  [][\A i \in Indices : declared[i] => ParamInfo'[i] = ParamInfo[i]]_vars

(* C15: after SetCurrParam the Portion passed to it is held by a slot   *)
(* of the pending call or has been released.                             *)
C15_BoundValueNotLeaked ==
  (last.op = "SetCurrParam" /\ ~halted) =>
    \/ \E i \in Indices : Slots(last.c)[i] = last.ret
    \/ ~Live(heap, last.ret)

(* The call c has been constructed and CallFunction() has not been      *)
(* called on it yet                                                      *)
Building(c) == calls[c].created /\ invoked[c] = <<>>

(* C16: a too-many-parameters report does not change what the pending   *)
(* call does next: SetCurrParamIndex still moves the cursor, SetCurrParam *)
(* at a cursor in [0, NumParams) still stores the value and advances,    *)
(* and CallFunction with no empty slot still passes the slots to the     *)
(* entry point.                                                          *)
C16_TooManyIsNotLatched ==
  [][\A c \in Calls :
       Message(c, "TooManyParameters") \in gerr =>
         /\ Called("SetCurrParamIndex", c) => Cursor(c)' = last'.index
         /\ (Called("SetCurrParam", c) /\ InRange(Cursor(c))) =>
              /\ last'.err = NoReport
              /\ Slots(c)'[Cursor(c)] = last'.ret
              /\ Live(heap', last'.ret)
              /\ heap'[last'.ret].val = last'.val
              /\ Cursor(c)' = Cursor(c) + 1
              /\ Building(c) => ~halted'
         /\ (Called("CallFunction", c) /\ EmptySlots(c) = {}) =>
              /\ last'.err = NoReport
              /\ invoked'[c] =
                   Append(invoked[c], [args |-> Slots(c),
                                       vals |-> ArgContents(heap, Slots(c))])
              /\ Building(c) => ~halted']_vars

(* too many parameters was reported at cursor 1 of a one-parameter call, *)
(* then the cursor was moved back to 0 and a value was bound there       *)
C16_Witness ==
  /\ num_of_params = 1
  /\ Building(1)
  /\ Message(1, "TooManyParameters") \in gerr
  /\ Len(trace) = 3
  /\ trace[1].op = "SetCurrParam"
  /\ trace[2] = Op("SetCurrParamIndex", 1, 0)
  /\ trace[3].op = "SetCurrParam"
  /\ last.op = "SetCurrParam"
  /\ last.err = NoReport
  /\ Slots(1)[0] = last.ret
  /\ Live(heap, last.ret)

(* C17: a SetCurrParam step with the cursor k in [0, NumParams)         *)
(* releases the Portion that slot k held, which was still allocated,     *)
(* stores the new Portion in slot k, advances the cursor to k + 1 and    *)
(* leaves every other slot alone; no Portion is held by two slots.       *)
C17_BindStep ==
  [][\A c \in Calls :
       (Called("SetCurrParam", c) /\ InRange(Cursor(c))) =>
         LET k == Cursor(c)
             old == Slots(c)[k]
         IN /\ old # 0 => (Live(heap, old) /\ ~Live(heap', old))
            /\ Slots(c)'[k] = last'.ret
            /\ Live(heap', last'.ret)
            /\ heap'[last'.ret].val = last'.val
            /\ Cursor(c)' = k + 1
            /\ \A j \in Indices \ {k} : Slots(c)'[j] = Slots(c)[j]
            /\ \A i, j \in Indices :
                 (i # j /\ Slots(c)'[i] # 0) => Slots(c)'[i] # Slots(c)'[j]]_vars

(* The history of call 1 is m SetCurrParam calls, followed by one         *)
(* CallFunction when exec holds, and no SetCurrParamIndex                *)
Positional(m, exec) ==
  /\ calls[1].created
  /\ m <= num_of_params
  /\ Len(trace) = (IF exec THEN m + 1 ELSE m)
  /\ \A j \in 1..m : trace[j].op = "SetCurrParam"
  /\ exec => trace[m + 1].op = "CallFunction"

(* The Portion allocated by the j-th of m SetCurrParam calls, nothing    *)
(* else having been allocated since the first of them                    *)
BoundPortion(m, j) == Len(heap) - m + j

(* C18: after m <= NumParams SetCurrParam calls on a new call and no    *)
(* SetCurrParamIndex, slot i holds the i-th Portion passed for i < m and *)
(* the copy of the default, or nothing, for i >= m, and the cursor is m; *)
(* CallFunction then passes exactly these to the entry point when no     *)
(* slot is empty.                                                        *)
C18_PositionalBinding ==
  \A m \in 0..MaxOps : \A exec \in BOOLEAN :
    Positional(m, exec) =>
      /\ Cursor(1) = m
      /\ \A i \in Indices :
           IF i < m
           THEN /\ Slots(1)[i] = BoundPortion(m, i + 1)
                /\ heap[Slots(1)[i]].val = trace[i + 1].arg
                /\ ~exec => Live(heap, Slots(1)[i])
           ELSE IF HasDefault(i)
                THEN /\ Slots(1)[i] # 0
                     /\ Slots(1)[i] # ParamInfo[i].DefaultValue
                     /\ heap[Slots(1)[i]].val = DefaultContent(i)
                ELSE Slots(1)[i] = 0
      /\ ~exec => invoked[1] = <<>>
      /\ (exec /\ EmptySlots(1) = {}) =>
           invoked[1] =
             <<[args |-> Slots(1),
                vals |-> [i \in Indices |->
                            IF i < m THEN trace[i + 1].arg
                                     ELSE DefaultContent(i)]]>>

(* one positional SetCurrParam on a call of two parameters with          *)
(* defaults, then CallFunction: the entry point got the bound value and  *)
(* the second default                                                    *)
C18_Witness ==
  /\ num_of_params = 2
  /\ HasDefault(0) /\ HasDefault(1)
  /\ Positional(1, TRUE)
  /\ Len(invoked[1]) = 1
  /\ invoked[1][1].vals[0] = MaxVal + 1
  /\ invoked[1][1].vals[1] = DefaultContent(1)

(* C19: a CallFunction that reports a missing parameter changes no      *)
(* slot, no cursor and no Portion and calls nothing; after such a report *)
(* SetCurrParam still fills the slot at the cursor and a CallFunction    *)
(* that finds no empty slot calls the entry point with the slots.        *)
C19_MissingIsNotLatched ==
  [][\A c \in Calls :
       /\ (Called("CallFunction", c) /\ EmptySlots(c) # {}) =>
            /\ last'.err = "MissingRequiredParameter"
            /\ calls' = calls
            /\ heap' = heap
            /\ invoked' = invoked
            /\ ~halted'
       /\ Message(c, "MissingRequiredParameter") \in gerr =>
            /\ (Called("SetCurrParam", c) /\ InRange(Cursor(c))) =>
                 /\ last'.err = NoReport
                 /\ Slots(c)'[Cursor(c)] = last'.ret
                 /\ Live(heap', last'.ret)
            /\ (Called("CallFunction", c) /\ EmptySlots(c) = {}) =>
                 /\ last'.err = NoReport
                 /\ invoked'[c] =
                      Append(invoked[c],
                             [args |-> Slots(c),
                              vals |-> ArgContents(heap, Slots(c))])]_vars

(* CallFunction on a call whose only parameter has no default reported   *)
(* it missing; the parameter was then bound and CallFunction called the  *)
(* entry point with it                                                   *)
C19_Witness ==
  /\ num_of_params = 1
  /\ ~HasDefault(0)
  /\ Len(trace) = 3
  /\ trace[1].op = "CallFunction"
  /\ trace[2].op = "SetCurrParam"
  /\ trace[3].op = "CallFunction"
  /\ Message(1, "MissingRequiredParameter") \in gerr
  /\ Len(invoked[1]) = 1
  /\ invoked[1][1].vals[0] = MaxVal + 1

(* C20: a SetParamInfo with a valid index reports a duplicate name      *)
(* exactly when some slot of the signature, the one being set and the    *)
(* ones not set yet (named "") included, holds the name passed.          *)
C20_DuplicateScanCoversEverySlot ==
  [][(Called("SetParamInfo", 0) /\ InRange(last'.index)) =>
       (last'.err = "DuplicateParameterName" <=>
          \E j \in Indices : ParamInfo[j].Name = last'.name)]_vars

====
